---- MODULE Spec2Model ----
(***************************************************************************)
(* seed-dispersal (src/index.js): a text is assembled by chaining          *)
(* paragraphs of Project Gutenberg books fetched from GitHub.  Each        *)
(* paragraph's character-code sum selects the next book and paragraph.     *)
(*                                                                         *)
(* The program is callback driven.  Its state is the output stream `book`, *)
(* the object `cache`, and the set `pending` of continuations the event    *)
(* loop still has to run: a call of addParagraph, a GitHub request whose   *)
(* callback has not fired, or a timer set by setTimeout.  Every            *)
(* continuation carries the variables its closure captured (index, count,  *)
(* bookId, ...).                                                           *)
(*                                                                         *)
(* Texts are sequences of character codes.  Three reserved codes stand for *)
(* the marker phrases the boilerplate regular expressions look for.        *)
(***************************************************************************)
EXTENDS Integers, Sequences, FiniteSets, TLC

VARIABLES
    cfg,          \* the configuration: startId, paragraphLimit, maxId, excludes
    book,         \* the text written to the stream book
    cache,        \* the indices i with cache[i] = true
    pending,      \* the continuations the event loop still has to run
    closed,       \* how many times closeBook has run
    crashed,      \* an exception has escaped a callback
    transcribed,  \* history: the paragraphs written, in order
    retries,      \* history: how many times trySimilarParagraph has run
    last,         \* history: what the last handler reported (winston.info)
    response,     \* history: the response the last request callback was given
    input,        \* the argument of a function that is applied on its own
    output        \* the progress and the result of that application

vars == <<cfg, book, cache, pending, closed, crashed, transcribed, retries, last,
          response, input, output>>

(***************************************************************************)
(* Bounds of the model.                                                    *)
(***************************************************************************)
MaxParagraphLimit == 2
MaxRetries == 2
MaxTreeLen == 3
MaxTextLen == 3

(***************************************************************************)
(* Characters.  start, end and produced stand for a whole match of         *)
(* "start of (this|the) project gutenberg...***", of                       *)
(* "end of (this|the) project gutenberg" and of "produced by"; the code of *)
(* produced is the character-code sum of the phrase "produced by", the     *)
(* only one of the three that can survive normalisation.                   *)
(***************************************************************************)
Char == [nl |-> 10, cr |-> 13, sp |-> 32, plus |-> 43, us |-> 95,
         a |-> 97, b |-> 98, start |-> 1, end |-> 2, produced |-> 1095]

Whitespace == {Char.nl, Char.cr, Char.sp}

RECURSIVE SumCodes(_)
SumCodes(s) == IF s = <<>> THEN 0 ELSE Head(s) + SumCodes(Tail(s))

(***************************************************************************)
(* Configuration values (config.get).                                      *)
(***************************************************************************)
GutenbergMaxIds == {3, 5}
GutenbergExcludes == {{}, {0}, {1}}

\* the remainder operator of JavaScript: the result has the sign of the dividend
Rem(a, b) == IF a >= 0 THEN a % b ELSE 0 - ((0 - a) % b)

\* clampBookId that counts identifiers from one
clampBookIdFromOne(id) == Rem(id, cfg.maxId) + 1

clampBookId(id) == Rem(id, cfg.maxId)

getNextIndex(paragraph) == SumCodes(paragraph)

(***************************************************************************)
(* Rate limiting.  A response's headers are absent or carry the remaining  *)
(* quota and the reset time in seconds; Nows are readings of Date.now().   *)
(***************************************************************************)
Headers == [present : {FALSE}, remaining : {0}, reset : {0}]
             \cup [present : {TRUE}, remaining : {0, 1}, reset : {0, 2}]

Nows == {1000}

\* getRateTimeout that accepts absent headers
getRateTimeoutNeverThrows(headers) == FALSE

getRateTimeoutThrows(headers) == ~headers.present

\* getRateTimeout without the conversion of the reset time to milliseconds
getRateTimeoutInSeconds(headers, now) ==
    IF headers.remaining < 1 THEN headers.reset - now ELSE 0

getRateTimeout(headers, now) ==
    IF headers.remaining < 1 THEN headers.reset * 1000 - now ELSE 0

(***************************************************************************)
(* Declarations of a book.  A blob is modelled by its declared language    *)
(* and character set (the empty string when the line is absent) and its    *)
(* content, the decoded bytes; the content holds 7-bit characters only, so *)
(* every decoder that accepts the character set returns it unchanged.      *)
(***************************************************************************)
toLowerCase(s) ==
    CASE s = "English" -> "english"
      [] s = "French" -> "french"
      [] s = "ASCII" -> "ascii"
      [] s = "UTF-8" -> "utf-8"
      [] s = "ISO-8859-1" -> "iso-8859-1"
      [] s = "Klingon" -> "klingon"
      [] OTHER -> s

getBookEncoding(data) ==
    IF data.charset = "" THEN "ascii" ELSE toLowerCase(data.charset)

getBookLanguage(data) ==
    IF data.language = "" THEN "english" ELSE toLowerCase(data.language)

\* Buffer.prototype.toString(charset) throws on a character set it does not know
BufferEncodings == {"ascii", "utf-8"}

\* new iconv.Iconv(charset, 'utf-8') throws on a character set it does not know
IconvEncodings == {"ascii", "utf-8", "iso-8859-1"}

Illegible(data) ==
    /\ getBookEncoding(data) \notin BufferEncodings
    /\ getBookEncoding(data) \notin IconvEncodings

decodedText(data) == data.content

(***************************************************************************)
(* Text normalisation.                                                     *)
(***************************************************************************)
MaxOf(S) == CHOOSE x \in S : \A y \in S : y <= x
MinOf(S) == CHOOSE x \in S : \A y \in S : x <= y

Drop(t, n) == SubSeq(t, n + 1, Len(t))

RECURSIVE TrimLeft(_)
TrimLeft(t) ==
    IF t # <<>> /\ Head(t) \in Whitespace THEN TrimLeft(Tail(t)) ELSE t

RECURSIVE TrimRight(_)
TrimRight(t) ==
    IF t # <<>> /\ t[Len(t)] \in Whitespace
    THEN TrimRight(SubSeq(t, 1, Len(t) - 1)) ELSE t

Trim(t) == TrimRight(TrimLeft(t))

\* text.replace(/^[\s\S]*start\s+of\s+(th(is|e)\s+)?project\s+gutenberg.*?[\*]+/i, '')
\* the greedy prefix reaches the last marker
StripHeader(t) ==
    LET at == {i \in 1..Len(t) : t[i] = Char.start}
    IN  IF at = {} THEN t ELSE Drop(t, MaxOf(at))

\* output.replace(/[\*]*\s*end\s+of\s+(th(is|e)\s+)?project\s+gutenberg[\s\S]*$/i, '')
\* the leftmost match starts at the whitespace run before the first marker
StripFooter(t) ==
    LET at == {i \in 1..Len(t) : t[i] = Char.end}
    IN  IF at = {} THEN t ELSE TrimRight(SubSeq(t, 1, MinOf(at) - 1))

\* length of the run of "\r\n" pairs that starts at position i
RECURSIVE CrLfRun(_, _)
CrLfRun(t, i) ==
    IF i + 1 <= Len(t) /\ t[i] = Char.cr /\ t[i + 1] = Char.nl
    THEN 2 + CrLfRun(t, i + 2) ELSE 0

\* output.replace(/^\s*produced\s+by[\s\S]+?(\r\n){2,}/i, '')
StripProduced(t) ==
    LET u == TrimLeft(t)
        ends == {i \in 3..Len(u) : CrLfRun(u, i) >= 4}
    IN  IF u # <<>> /\ Head(u) = Char.produced /\ ends # {}
        THEN Drop(u, MinOf(ends) - 1 + CrLfRun(u, MinOf(ends)))
        ELSE t

stripGutenbergBoilerplate(text) ==
    Trim(StripProduced(StripFooter(StripHeader(text))))

RECURSIVE Remove(_, _)
Remove(t, c) ==
    IF t = <<>> THEN <<>>
    ELSE IF Head(t) = c THEN Remove(Tail(t), c)
    ELSE <<Head(t)>> \o Remove(Tail(t), c)

RECURSIVE CrLfToLf(_)
CrLfToLf(t) ==
    IF t = <<>> THEN <<>>
    ELSE IF CrLfRun(t, 1) >= 2 THEN <<Char.nl>> \o CrLfToLf(Drop(t, 2))
    ELSE <<Head(t)>> \o CrLfToLf(Tail(t))

\* strippedText.replace(/_/g, '').replace(/\+/g, '').replace(/\r\n/g, '\n')
fixedText(data) ==
    CrLfToLf(Remove(Remove(stripGutenbergBoilerplate(decodedText(data)),
                           Char.us), Char.plus))

(***************************************************************************)
(* Paragraph selection.                                                    *)
(***************************************************************************)
\* length of the run of "\n" that starts at position i
RECURSIVE NlRun(_, _)
NlRun(t, i) ==
    IF i <= Len(t) /\ t[i] = Char.nl THEN 1 + NlRun(t, i + 1) ELSE 0

\* text.split(/\n{2,}/)
RECURSIVE Split(_)
Split(t) ==
    LET at == {i \in 1..Len(t) : NlRun(t, i) >= 2}
    IN  IF at = {} THEN <<t>>
        ELSE LET i == MinOf(at)
             IN  <<SubSeq(t, 1, i - 1)>> \o Split(Drop(t, i - 1 + NlRun(t, i)))

\* getParagraph that ignores the index
getParagraphFirst(text, index) ==
    Split(text)[1] \o <<Char.nl, Char.nl>>

getParagraph(text, index) ==
    LET paragraphs == Split(text)
        paragraphIndex == Rem(index, Len(paragraphs))
    IN  paragraphs[paragraphIndex + 1] \o <<Char.nl, Char.nl>>

(***************************************************************************)
(* Responses of GitHub.                                                    *)
(***************************************************************************)
NoData == [language |-> "", charset |-> "", content |-> <<>>]

Contents ==
    { <<Char.a>>,
      <<Char.a, Char.nl, Char.nl, Char.b>>,
      <<Char.us, Char.nl, Char.nl, Char.a>>,
      <<Char.sp, Char.start, Char.cr, Char.nl, Char.a, Char.us, Char.cr, Char.nl,
        Char.cr, Char.nl, Char.cr, Char.nl, Char.b, Char.plus, Char.cr, Char.nl,
        Char.end, Char.a>>,
      <<Char.produced, Char.a, Char.cr, Char.nl, Char.cr, Char.nl, Char.b>> }

Blobs ==
    [language : {""}, charset : {""}, content : Contents]
      \cup [language : {"English"}, charset : {"UTF-8", "ISO-8859-1"},
            content : {<<Char.a, Char.nl, Char.nl, Char.b>>}]
      \cup [language : {"French"}, charset : {"UTF-8"}, content : {<<Char.a>>}]
      \cup [language : {""}, charset : {"Klingon"}, content : {<<Char.a>>}]

(***************************************************************************)
(* The tree of a repository: a sequence of files, each with its own path.  *)
(* A path is modelled by the pair of the identifier and the rest of the    *)
(* name, and a file by its path.                                           *)
(***************************************************************************)
Suffixes == {".txt", "-8.txt", "-0.txt"}

NoFile == <<0 - 1, "">>

FilesOf(ids) == ids \X Suffixes

Trees(files) ==
    {t \in UNION {[1..n -> files] : n \in 0..MaxTreeLen} :
        \A i, j \in DOMAIN t : i # j => t[i] # t[j]}

\* data.tree.find(function isText(file) { return file.path === path; })
RECURSIVE find(_, _)
find(tree, path) ==
    IF tree = <<>> THEN NoFile
    ELSE IF Head(tree) = path THEN Head(tree)
    ELSE find(Tail(tree), path)

\* the look-up with "-0.txt" tried before "-8.txt"
findBookFileZeroFirst(tree, id) ==
    IF find(tree, <<id, ".txt">>) # NoFile THEN find(tree, <<id, ".txt">>)
    ELSE IF find(tree, <<id, "-0.txt">>) # NoFile THEN find(tree, <<id, "-0.txt">>)
    ELSE find(tree, <<id, "-8.txt">>)

\* the three look-ups of getBook
findBookFile(tree, id) ==
    IF find(tree, <<id, ".txt">>) # NoFile THEN find(tree, <<id, ".txt">>)
    ELSE IF find(tree, <<id, "-8.txt">>) # NoFile THEN find(tree, <<id, "-8.txt">>)
    ELSE find(tree, <<id, "-0.txt">>)

(***************************************************************************)
(* Continuations.                                                          *)
(***************************************************************************)
Continuation(kind, index, count, bookId, result, delay, data) ==
    [kind |-> kind, index |-> index, count |-> count, bookId |-> bookId,
     result |-> result, delay |-> delay, data |-> data]

\* addParagraph(book, index, count, cache, callback) has been called
Call(index, count) == Continuation("addParagraph", index, count, 0, "", 0, NoData)

Then(e, kind, result, delay, data) ==
    Continuation(kind, e.index, e.count, e.bookId, result, delay, data)

\* what a request callback was given: (err, data, headers)
NoResponse ==
    [to |-> "", err |-> FALSE, hit |-> FALSE, headers |-> FALSE, timeout |-> 0]

Response(to, err, hit, headers, now) ==
    [to |-> to, err |-> err, hit |-> ~err /\ hit, headers |-> headers.present,
     timeout |-> IF err \/ ~headers.present \/ (to = "tree" /\ ~hit) THEN 0
                 ELSE getRateTimeout(headers, now)]

Throw ==
    /\ crashed' = TRUE
    /\ pending' = {}
    /\ last' = "throw"
    /\ UNCHANGED <<cfg, book, cache, closed, transcribed, retries>>

Issue(e, next, what) ==
    /\ pending' = (pending \ {e}) \cup {next}
    /\ last' = what
    /\ UNCHANGED <<cfg, book, cache, closed, crashed, transcribed, retries>>

(***************************************************************************)
(* The engine.                                                             *)
(***************************************************************************)
extraText == <<Char.nl>>

\* retry that passes count - 1 on
retryDecrements(e, newIndex) ==
    pending' = (pending \ {e}) \cup {Call(newIndex, e.count - 1)}

retry(e, newIndex) == pending' = (pending \ {e}) \cup {Call(newIndex, e.count)}

\* trySimilarParagraph without book.write(extraText)
trySimilarParagraphSilent(e) ==
    /\ retries < MaxRetries
    /\ book' = book
    /\ retry(e, e.index + getNextIndex(extraText))
    /\ retries' = retries + 1
    /\ UNCHANGED <<cfg, cache, closed, crashed, transcribed>>

\* trySimilarParagraph calling callback(getNextIndex(extraText))
trySimilarParagraphConstant(e) ==
    /\ retries < MaxRetries
    /\ book' = book \o extraText
    /\ retry(e, getNextIndex(extraText))
    /\ retries' = retries + 1
    /\ UNCHANGED <<cfg, cache, closed, crashed, transcribed>>

\* trySimilarParagraph calling callback(index + 1)
trySimilarParagraphAdvancesByOne(e) ==
    /\ retries < MaxRetries
    /\ book' = book \o extraText
    /\ retry(e, e.index + 1)
    /\ retries' = retries + 1
    /\ UNCHANGED <<cfg, cache, closed, crashed, transcribed>>

\* trySimilarParagraph that sets cache[index] = true
trySimilarParagraphCaches(e) ==
    /\ retries < MaxRetries
    /\ book' = book \o extraText
    /\ retry(e, e.index + getNextIndex(extraText))
    /\ retries' = retries + 1
    /\ cache' = cache \cup {e.index}
    /\ UNCHANGED <<cfg, closed, crashed, transcribed>>

trySimilarParagraph(e) ==
    /\ retries < MaxRetries
    /\ book' = book \o extraText
    /\ retry(e, e.index + getNextIndex(extraText))
    /\ retries' = retries + 1
    /\ UNCHANGED <<cfg, cache, closed, crashed, transcribed>>

Transcribe(e, result, text, visited) ==
    LET paragraph == getParagraph(result, e.index)
        nextIndex == getNextIndex(paragraph)
    IN  /\ last' = "transcribing"
        /\ book' = text
        /\ cache' = visited
        /\ pending' = (pending \ {e}) \cup {Call(nextIndex, e.count - 1)}
        /\ transcribed' = Append(transcribed,
               [index |-> e.index, bookId |-> e.bookId, text |-> result,
                paragraph |-> paragraph])
        /\ UNCHANGED <<cfg, closed, crashed, retries>>

\* processText without cache[index] = true
processTextForgets(e, err, result) ==
    IF err # ""
    THEN /\ last' = err
         /\ trySimilarParagraph(e)
    ELSE Transcribe(e, result, book \o getParagraph(result, e.index), cache)

\* processText that starts the cache again
processTextResets(e, err, result) ==
    IF err # ""
    THEN /\ last' = err
         /\ trySimilarParagraph(e)
    ELSE Transcribe(e, result, book \o getParagraph(result, e.index), {e.index})

\* processText that throws err on
processTextRethrows(e, err, result) ==
    IF err # ""
    THEN /\ last' = err
         /\ crashed' = TRUE
         /\ pending' = {}
         /\ UNCHANGED <<cfg, book, cache, closed, transcribed, retries>>
    ELSE Transcribe(e, result, book \o getParagraph(result, e.index),
                    cache \cup {e.index})

\* processText that puts the paragraph in front of the text
processTextPrepends(e, err, result) ==
    IF err # ""
    THEN /\ last' = err
         /\ trySimilarParagraph(e)
    ELSE Transcribe(e, result, getParagraph(result, e.index) \o book,
                    cache \cup {e.index})

processText(e, err, result) ==
    IF err # ""
    THEN /\ last' = err
         /\ trySimilarParagraph(e)
    ELSE LET paragraph == getParagraph(result, e.index)
             nextIndex == getNextIndex(paragraph)
         IN  /\ last' = "transcribing"
             /\ book' = book \o paragraph
             /\ cache' = cache \cup {e.index}
             /\ pending' = (pending \ {e}) \cup {Call(nextIndex, e.count - 1)}
             /\ transcribed' = Append(transcribed,
                    [index |-> e.index, bookId |-> e.bookId, text |-> result,
                     paragraph |-> paragraph])
             /\ UNCHANGED <<cfg, closed, crashed, retries>>

closeBook(e) ==
    /\ closed' = closed + 1
    /\ pending' = pending \ {e}
    /\ last' = "closeBook"
    /\ UNCHANGED <<cfg, book, cache, crashed, transcribed, retries>>

getGutenbergBook(e, id) ==
    Issue(e, Continuation("search", e.index, e.count, id, "", 0, NoData), "search")

\* addParagraph without the test of config.get('gutenberg.excludes')
addParagraphIgnoresExcludes ==
    \E e \in pending :
        /\ e.kind = "addParagraph"
        /\ response' = NoResponse
        /\ UNCHANGED <<input, output>>
        /\ IF e.count < 1 THEN closeBook(e)
           ELSE IF e.index \in cache
                THEN last' = "visited" /\ trySimilarParagraph(e)
           ELSE getGutenbergBook(e, clampBookId(e.index))

\* addParagraph that stops at count < 2
addParagraphStopsEarly ==
    \E e \in pending :
        /\ e.kind = "addParagraph"
        /\ response' = NoResponse
        /\ UNCHANGED <<input, output>>
        /\ IF e.count < 2 THEN closeBook(e)
           ELSE IF e.index \in cache
                THEN last' = "visited" /\ trySimilarParagraph(e)
           ELSE IF clampBookId(e.index) \in cfg.excludes
                THEN last' = "forbidden" /\ trySimilarParagraph(e)
           ELSE getGutenbergBook(e, clampBookId(e.index))

addParagraph ==
    \E e \in pending :
        /\ e.kind = "addParagraph"
        /\ response' = NoResponse
        /\ UNCHANGED <<input, output>>
        /\ IF e.count < 1 THEN closeBook(e)
           ELSE IF e.index \in cache
                THEN last' = "visited" /\ trySimilarParagraph(e)
           ELSE IF clampBookId(e.index) \in cfg.excludes
                THEN last' = "forbidden" /\ trySimilarParagraph(e)
           ELSE getGutenbergBook(e, clampBookId(e.index))

(***************************************************************************)
(* The corpus provider: search, tree, blob, each followed by a timer.      *)
(***************************************************************************)
\* checkRateLimit that runs findRepo at once, without setTimeout
checkRateLimitNoWait ==
    \E e \in pending, err \in BOOLEAN, found \in BOOLEAN, headers \in Headers,
       now \in Nows :
        /\ e.kind = "search"
        /\ response' = Response("search", err, found, headers, now)
        /\ UNCHANGED <<input, output>>
        /\ IF err THEN processText(e, "request failed", <<>>)
           ELSE IF getRateTimeoutThrows(headers) THEN Throw
           ELSE IF ~found THEN processText(e, "missing from the library", <<>>)
           ELSE Issue(e, Then(e, "tree", "", 0, NoData), "tree")

checkRateLimit ==
    \E e \in pending, err \in BOOLEAN, found \in BOOLEAN, headers \in Headers,
       now \in Nows :
        /\ e.kind = "search"
        /\ response' = Response("search", err, found, headers, now)
        /\ UNCHANGED <<input, output>>
        /\ IF err THEN processText(e, "request failed", <<>>)
           ELSE IF getRateTimeoutThrows(headers) THEN Throw
           ELSE Issue(e, Then(e, "findRepo", IF found THEN "repo" ELSE "",
                              getRateTimeout(headers, now), NoData), "timer")

getGutenbergBookFromRepo(e) == Issue(e, Then(e, "tree", "", 0, NoData), "tree")

findRepo ==
    \E e \in pending :
        /\ e.kind = "findRepo"
        /\ response' = NoResponse
        /\ UNCHANGED <<input, output>>
        /\ IF e.result = ""
           THEN processText(e, "missing from the library", <<>>)
           ELSE getGutenbergBookFromRepo(e)

\* the trees a repository of book id may have
TreesOf(id) == Trees(FilesOf({id}) \cup {<<id + 1, ".txt">>})

getBook ==
    \E e \in pending, err \in BOOLEAN, headers \in Headers, now \in Nows :
        /\ e.kind = "tree"
        /\ \E tree \in TreesOf(e.bookId) :
              LET result == findBookFile(tree, e.bookId)[2]
              IN  /\ response' = Response("tree", err, result # "", headers, now)
                  /\ UNCHANGED <<input, output>>
                  /\ IF err THEN processText(e, "request failed", <<>>)
                     ELSE IF result = ""
                          THEN processText(e, "should be around here somewhere", <<>>)
                     ELSE IF getRateTimeoutThrows(headers) THEN Throw
                     ELSE Issue(e, Then(e, "getTextRepo", result,
                                        getRateTimeout(headers, now), NoData),
                                "timer")

getGutenbergBookFromBlob(e) == Issue(e, Then(e, "blob", e.result, 0, NoData), "blob")

getTextRepo ==
    \E e \in pending :
        /\ e.kind = "getTextRepo"
        /\ response' = NoResponse
        /\ UNCHANGED <<input, output>>
        /\ getGutenbergBookFromBlob(e)

\* parseText without the return in front of callback(err)
parseTextFallsThrough ==
    \E e \in pending, err \in BOOLEAN, data \in Blobs, headers \in Headers,
       now \in Nows :
        /\ e.kind = "blob"
        /\ response' = Response("blob", err, TRUE, headers, now)
        /\ UNCHANGED <<input, output>>
        /\ IF getRateTimeoutThrows(headers) THEN Throw
           ELSE IF err
                THEN /\ retries < MaxRetries
                     /\ last' = "request failed"
                     /\ book' = book \o extraText
                     /\ pending' = (pending \ {e}) \cup
                            {Call(e.index + getNextIndex(extraText), e.count),
                             Then(e, "getTextBlob", e.result,
                                  getRateTimeout(headers, now), NoData)}
                     /\ retries' = retries + 1
                     /\ UNCHANGED <<cfg, cache, closed, crashed, transcribed>>
           ELSE Issue(e, Then(e, "getTextBlob", e.result,
                              getRateTimeout(headers, now), data), "timer")

parseText ==
    \E e \in pending, err \in BOOLEAN, data \in Blobs, headers \in Headers,
       now \in Nows :
        /\ e.kind = "blob"
        /\ response' = Response("blob", err, TRUE, headers, now)
        /\ UNCHANGED <<input, output>>
        /\ IF err THEN processText(e, "request failed", <<>>)
           ELSE IF getRateTimeoutThrows(headers) THEN Throw
           ELSE Issue(e, Then(e, "getTextBlob", e.result,
                              getRateTimeout(headers, now), data), "timer")

getTextBlob ==
    \E e \in pending :
        /\ e.kind = "getTextBlob"
        /\ response' = NoResponse
        /\ UNCHANGED <<input, output>>
        /\ IF getBookLanguage(e.data) # "english"
           THEN processText(e, "unfamiliar dialect", <<>>)
           ELSE IF Illegible(e.data)
                THEN processText(e, "illegible", <<>>)
           ELSE processText(e, "", fixedText(e.data))

(***************************************************************************)
(* createBook: the run starts with an empty stream and an empty cache.     *)
(***************************************************************************)
GutenbergStartIds == {0, 1, 20}

Init ==
    /\ cfg \in [startId : GutenbergStartIds, paragraphLimit : 0..MaxParagraphLimit,
                maxId : GutenbergMaxIds, excludes : GutenbergExcludes]
    /\ book = <<>>
    /\ cache = {}
    /\ pending = {Call(cfg.startId, cfg.paragraphLimit)}
    /\ closed = 0
    /\ crashed = FALSE
    /\ transcribed = <<>>
    /\ retries = 0
    /\ last = "createBook"
    /\ response = NoResponse
    /\ input = <<>>
    /\ output = <<>>

Next ==
    \/ addParagraph
    \/ checkRateLimit
    \/ findRepo
    \/ getBook
    \/ getTextRepo
    \/ parseText
    \/ getTextBlob

Spec == Init /\ [][Next]_vars

(***************************************************************************)
(* The functions applied on their own: getNextIndex on a string given by   *)
(* its code points, the normalisation of getText on a raw text, the file   *)
(* look-up of getBook on a tree, getRateTimeout on headers and a clock.    *)
(***************************************************************************)
\* the UTF-16 code units of a code point: the elements of a JavaScript string
Utf16(c) ==
    IF c < 65536 THEN <<c>>
    ELSE <<55296 + ((c - 65536) \div 1024), 56320 + ((c - 65536) % 1024)>>

RECURSIVE String(_)
String(codePoints) ==
    IF codePoints = <<>> THEN <<>>
    ELSE Utf16(Head(codePoints)) \o String(Tail(codePoints))

\* setTimeout runs a callback whose delay is below 1 as it runs one of delay 0
setTimeoutWait(delay) == IF delay < 1 THEN 0 ELSE delay

SeqsOf(S, n) == UNION {[1..k -> S] : k \in 0..n}

CodePoints == {Char.nl, Char.a, 65536}

RawChars == {Char.a, Char.sp, Char.us, Char.nl, Char.cr, Char.start, Char.end,
             Char.produced}

NoHeaders == [present |-> FALSE, remaining |-> 0, reset |-> 0]

Input(op, text, id, tree, headers, now) ==
    [op |-> op, text |-> text, id |-> id, tree |-> tree, headers |-> headers,
     now |-> now]

Inputs ==
    {Input("getNextIndex", t, 0, <<>>, NoHeaders, 0) : t \in SeqsOf(CodePoints, MaxTextLen)}
      \cup {Input("getText", t, 0, <<>>, NoHeaders, 0) : t \in SeqsOf(RawChars, MaxTextLen)}
      \cup {Input("getBook", <<>>, i, t, NoHeaders, 0) :
               i \in {0, 1}, t \in Trees(FilesOf({0, 1}))}
      \cup {Input("getRateTimeout", <<>>, 0, <<>>, h, n) :
               h \in {NoHeaders} \cup [present : {TRUE}, remaining : 0..2, reset : 0..2],
               n \in {0, 1000, 3000}}

Raw(text) == [language |-> "", charset |-> "", content |-> text]

InitFunctions ==
    /\ cfg = [startId |-> 0, paragraphLimit |-> 0, maxId |-> 5, excludes |-> {}]
    /\ book = <<>>
    /\ cache = {}
    /\ pending = {}
    /\ closed = 0
    /\ crashed = FALSE
    /\ transcribed = <<>>
    /\ retries = 0
    /\ last = ""
    /\ response = NoResponse
    /\ input \in Inputs
    /\ output = [at |-> "call"]

Engine == <<cfg, book, cache, pending, closed, crashed, transcribed, retries, last,
            response>>

\* paragraph.split('') and let nextIndex = 0
splitParagraph ==
    /\ input.op = "getNextIndex"
    /\ output.at = "call"
    /\ output' = [at |-> "forEach", chars |-> String(input.text), nextIndex |-> 0]
    /\ UNCHANGED <<Engine, input>>

\* addCharCode that keeps the last character code only
addCharCodeAssigns ==
    /\ input.op = "getNextIndex"
    /\ output.at = "forEach"
    /\ output.chars # <<>>
    /\ output' = [output EXCEPT !.chars = Tail(@), !.nextIndex = Head(output.chars)]
    /\ UNCHANGED <<Engine, input>>

\* nextIndex += char.charCodeAt(0), for one element of the string
addCharCode ==
    /\ input.op = "getNextIndex"
    /\ output.at = "forEach"
    /\ output.chars # <<>>
    /\ output' = [output EXCEPT !.chars = Tail(@),
                                !.nextIndex = @ + Head(output.chars)]
    /\ UNCHANGED <<Engine, input>>

returnNextIndex ==
    /\ input.op = "getNextIndex"
    /\ output.at = "forEach"
    /\ output.chars = <<>>
    /\ output' = [at |-> "return", value |-> output.nextIndex]
    /\ UNCHANGED <<Engine, input>>

applyGetText ==
    /\ input.op = "getText"
    /\ output.at = "call"
    /\ output' = [at |-> "return", value |-> fixedText(Raw(input.text))]
    /\ UNCHANGED <<Engine, input>>

applyGetBook ==
    /\ input.op = "getBook"
    /\ output.at = "call"
    /\ output' = [at |-> "return", value |-> findBookFile(input.tree, input.id)]
    /\ UNCHANGED <<Engine, input>>

applyGetRateTimeout ==
    /\ input.op = "getRateTimeout"
    /\ output.at = "call"
    /\ output' = IF getRateTimeoutThrows(input.headers)
                 THEN [at |-> "throw", value |-> 0, wait |-> 0]
                 ELSE [at |-> "return",
                       value |-> getRateTimeout(input.headers, input.now),
                       wait |-> setTimeoutWait(getRateTimeout(input.headers, input.now))]
    /\ UNCHANGED <<Engine, input>>

NextFunctions ==
    \/ splitParagraph
    \/ addCharCode
    \/ returnNextIndex
    \/ applyGetText
    \/ applyGetBook
    \/ applyGetRateTimeout

Functions == InitFunctions /\ [][NextFunctions]_vars

(***************************************************************************)
(* Properties.                                                             *)
(***************************************************************************)
\* this step ran trySimilarParagraph
RetryStep == retries' = retries + 1

\* this step wrote a paragraph
AppendStep == Len(transcribed') = Len(transcribed) + 1

\* this step called addParagraph again with remaining count c
Reenters(c) == \E f \in pending' : pending' = {f} /\ f.kind = "addParagraph" /\ f.count = c

BookErrors == {"request failed", "missing from the library",
               "should be around here somewhere", "unfamiliar dialect", "illegible"}

RECURSIVE Concat(_)
Concat(ss) == IF ss = <<>> THEN <<>> ELSE Head(ss) \o Concat(Tail(ss))

\* the run between blank-line separators that entry t of transcribed selected
Selected(t) == Split(t.text)[(t.index % Len(Split(t.text))) + 1]

\* C1: the remaining count changes only on a step that appends a paragraph,
\* where it decreases by exactly one; every retry step (visited seed, excluded
\* book, failed resolution) calls addParagraph again with the same count.
C1_CountChangesOnlyOnAppend ==
    [][\A e \in pending :
          /\ \A f \in pending' :
                f.count # e.count => AppendStep /\ f.count = e.count - 1
          /\ AppendStep => Reenters(e.count - 1)
          /\ RetryStep => Reenters(e.count) /\ ~AppendStep]_vars

\* two retries in a row, both for the same excluded book identifier
C1_Witness ==
    /\ last = "forbidden"
    /\ retries = 2
    /\ transcribed = <<>>
    /\ clampBookId(cfg.startId) \in cfg.excludes
    /\ clampBookId(cfg.startId + getNextIndex(extraText)) = clampBookId(cfg.startId)
    /\ \E e \in pending : e.kind = "addParagraph" /\ e.count = cfg.paragraphLimit
                          /\ e.count >= 1

\* C2: no two paragraphs of a run were written from the same seed, and a
\* paragraph is never written from a seed that is already in the cache.
C2_SeedsNeverReused ==
    /\ [](\A i, j \in 1..Len(transcribed) :
             i # j => transcribed[i].index # transcribed[j].index)
    /\ [][AppendStep => \A e \in pending : e.index \notin cache]_vars

\* the first paragraph derived its own seed again; the second paragraph was
\* written from another seed
C2_Witness ==
    /\ Len(transcribed) = 2
    /\ getNextIndex(transcribed[1].paragraph) = transcribed[1].index
    /\ transcribed[2].index # transcribed[1].index
    /\ retries >= 1

\* C3 as claimed: a retry step leaves the text written to the stream unchanged.
C3_RetryAppendsNothing == [][RetryStep => book' = book]_vars

\* C3: a retry step writes no paragraph; it writes exactly one newline
\* character to the stream.
C3_RetryAppendsOneNewline ==
    [][RetryStep => /\ book' = book \o <<Char.nl>>
                    /\ transcribed' = transcribed]_vars

C3_Witness == retries = 1 /\ book = <<Char.nl>> /\ last \in BookErrors

\* C4 as claimed: after every retry the next seed is the constant derive("\n").
C4_RetrySeedIsConstant ==
    [][RetryStep => \A f \in pending' : f.index = getNextIndex(<<Char.nl>>)]_vars

\* C4: after every retry the next seed is the retried seed plus derive("\n").
C4_RetrySeedAdvancesByConstant ==
    [][RetryStep => \A e \in pending : \A f \in pending' :
           f.index = e.index + getNextIndex(<<Char.nl>>)]_vars

C4_Witness ==
    /\ retries = 2
    /\ transcribed = <<>>
    /\ cfg.startId = 1
    /\ \E e \in pending : e.index = 1 + 2 * getNextIndex(<<Char.nl>>)

\* C5: every failure reported for one candidate book (request error, repository
\* not found, file not found, language not English, undecodable text) is
\* followed by a retry with the same remaining count; it neither ends nor
\* completes the run.
C5_BookFailuresAreRetried ==
    [][last' \in BookErrors =>
           /\ RetryStep
           /\ \A e \in pending : Reenters(e.count)
           /\ ~crashed'
           /\ closed' = closed]_vars

\* a book in French was rejected and the step re-entered with the full count
C5_Witness ==
    /\ last = "unfamiliar dialect"
    /\ retries = 1
    /\ ~crashed
    /\ \E e \in pending : e.kind = "addParagraph" /\ e.count = cfg.paragraphLimit

\* C6 as claimed: a response without rate-limit headers always crashes the run.
C6_AbsentHeadersAlwaysFatal ==
    [][response'.to # "" /\ ~response'.headers => crashed']_vars

\* C6: a response without rate-limit headers that carries no error (and, for
\* a tree, lists a file of the book) crashes the run: nothing is pending any
\* more and closeBook never runs.  A response that carries an error, and a
\* tree without a file of the book, become a retry whatever their headers.
C6_AbsentHeadersFatalUnlessFailure ==
    /\ [][/\ response'.to # ""
          /\ ~response'.headers
          /\ ~response'.err
          /\ (response'.to = "tree" => response'.hit)
          => crashed' /\ ~RetryStep]_vars
    /\ [][response'.to # "" /\ (response'.err \/ (response'.to = "tree" /\ ~response'.hit))
          => RetryStep /\ ~crashed']_vars
    /\ [](crashed => pending = {} /\ closed = 0)
    /\ [][crashed => UNCHANGED vars]_vars

\* the second book's blob arrived without headers after one paragraph was written
C6_Witness ==
    /\ crashed
    /\ response.to = "blob"
    /\ ~response.headers
    /\ Len(transcribed) = 1

\* C7: closeBook runs only from a call of addParagraph whose count is zero,
\* after exactly paragraphLimit paragraphs have been written, and only once.
C7_CompletesOnlyAtZero ==
    /\ [][closed' # closed =>
              /\ \A e \in pending : e.kind = "addParagraph" /\ e.count = 0
              /\ Len(transcribed) = cfg.paragraphLimit]_vars
    /\ [](closed <= 1)
    /\ [](closed = 1 => Len(transcribed) = cfg.paragraphLimit /\ pending = {})

C7_Witness == closed = 1 /\ cfg.paragraphLimit = 2 /\ Len(transcribed) = 2 /\ retries = 1

\* C8: a run without retries ends with the text made of the paragraphLimit
\* selected paragraphs, each followed by a blank-line separator, in the order
\* of their selection.
C8_NoRetryTextIsParagraphsInOrder ==
    closed = 1 /\ retries = 0 =>
        /\ Len(transcribed) = cfg.paragraphLimit
        /\ book = Concat([i \in 1..Len(transcribed) |->
                             Selected(transcribed[i]) \o <<Char.nl, Char.nl>>])

C8_Witness ==
    /\ closed = 1
    /\ retries = 0
    /\ Len(transcribed) = 2
    /\ Selected(transcribed[1]) # Selected(transcribed[2])

\* C9: at most one continuation is pending at any time, hence at most one
\* request is outstanding and at most one step is in progress.
C9_OneContinuationAtATime ==
    /\ Cardinality(pending) <= 1
    /\ Cardinality({e \in pending : e.kind \in {"search", "tree", "blob"}}) <= 1
    /\ Cardinality({<<e.index, e.count>> : e \in pending}) <= 1

\* the blob request of the second paragraph is outstanding
C9_Witness ==
    /\ \E e \in pending : e.kind = "blob"
    /\ Len(transcribed) = 1
    /\ retries = 1

\* C10 as claimed: the paragraph written is the one at index mod paragraph
\* count, and the next seed is the code sum of that paragraph's text.
C10_NextSeedIsSumOfParagraph ==
    [][AppendStep =>
           LET t == transcribed'[Len(transcribed')]
           IN  /\ book' = book \o Selected(t) \o <<Char.nl, Char.nl>>
               /\ \A f \in pending' : f.index = SumCodes(Selected(t))]_vars

\* C10: the paragraph written is the one at index mod paragraph count of the
\* normalised text, and the next seed is the code sum of that paragraph's text
\* followed by its blank-line separator.
C10_NextSeedIsSumOfParagraphAndSeparator ==
    [][AppendStep =>
           \A e \in pending :
               LET t == transcribed'[Len(transcribed')]
               IN  /\ t.index = e.index
                   /\ t.text = fixedText(e.data)
                   /\ book' = book \o Selected(t) \o <<Char.nl, Char.nl>>
                   /\ \A f \in pending' :
                          f.index = SumCodes(Selected(t) \o <<Char.nl, Char.nl>>)]_vars

\* the second of two paragraphs was selected by an odd seed
C10_Witness ==
    /\ Len(transcribed) = 1
    /\ Len(Split(transcribed[1].text)) = 2
    /\ transcribed[1].index % 2 = 1
    /\ \E e \in pending : e.index = SumCodes(Selected(transcribed[1])) + 2 * Char.nl

\* C11: a step whose seed clamps to an excluded book identifier is a retry
\* that appends no paragraph; no request and no timer is ever pending for an
\* excluded identifier, and no paragraph is ever taken from one.
C11_ExcludedBooksAreNeverUsed ==
    /\ [][\A e \in pending :
             e.kind = "addParagraph" /\ e.count >= 1
               /\ clampBookId(e.index) \in cfg.excludes
             => RetryStep /\ ~AppendStep /\ Reenters(e.count)]_vars
    /\ [](\A e \in pending : e.kind # "addParagraph" => e.bookId \notin cfg.excludes)
    /\ [](\A i \in 1..Len(transcribed) : transcribed[i].bookId \notin cfg.excludes)

\* the start seed clamps to an excluded identifier and the first step retried
C11_Witness ==
    /\ clampBookId(cfg.startId) \in cfg.excludes
    /\ retries = 1
    /\ last = "forbidden"
    /\ transcribed = <<>>
    /\ \E e \in pending : e.kind = "addParagraph" /\ e.count = cfg.paragraphLimit

\* C12: no step removes a seed from the cache.
C12_CacheOnlyGrows == [][cache \subseteq cache']_vars

C12_Witness == Cardinality(cache) = 2 /\ retries >= 1

\* C13: every seed of a run is a natural number and clamps to a book
\* identifier in 0 .. maxId - 1; every identifier a request is made for is the
\* clamped seed.
C13_BookIdInRange ==
    /\ \A e \in pending :
          /\ e.index >= 0
          /\ clampBookId(e.index) \in 0..(cfg.maxId - 1)
          /\ e.kind # "addParagraph" =>
                e.bookId = clampBookId(e.index) /\ e.bookId \in 0..(cfg.maxId - 1)
    /\ \A i \in 1..Len(transcribed) : transcribed[i].bookId \in 0..(cfg.maxId - 1)

\* a request for the book of a derived seed beyond maxId
C13_Witness ==
    /\ Len(transcribed) = 1
    /\ \E e \in pending : e.kind = "search" /\ e.index > cfg.maxId
                          /\ e.index = getNextIndex(transcribed[1].paragraph)

FunctionReturned(op) == input.op = op /\ output.at = "return"

\* C14 as claimed: getNextIndex returns the sum of the code points of the text.
C14_SumOfCodePoints ==
    FunctionReturned("getNextIndex") => output.value = SumCodes(input.text)

\* C14: getNextIndex returns the sum of the UTF-16 code units of the text, one
\* per element of the string and in their order, which is the sum of the code
\* points when every code point is below 65536; the result depends on the text
\* alone, and it is 10 for the single newline.
C14_SumOfCodeUnits ==
    FunctionReturned("getNextIndex") =>
        /\ output.value = SumCodes(String(input.text))
        /\ output.value = getNextIndex(String(input.text))
        /\ (\A i \in 1..Len(input.text) : input.text[i] < 65536)
             => output.value = SumCodes(input.text)
        /\ input.text = <<Char.nl>> => output.value = 10

\* the sum of a text that holds a code point beyond 65535
C14_Witness ==
    /\ FunctionReturned("getNextIndex")
    /\ input.text = <<Char.a, 65536>>
    /\ output.value = Char.a + 55296 + 56320

\* C15: normalising the result of the normalisation again returns it unchanged.
C15_NormalizerIdempotent ==
    FunctionReturned("getText") => fixedText(Raw(output.value)) = output.value

\* every identifier the retries from the seed of e lead to
Ahead(e) ==
    {clampBookId(e.index + k * getNextIndex(extraText)) : k \in 0..(cfg.maxId - 1)}

Stuck(e) == e.kind = "addParagraph" /\ e.count >= 1 /\ Ahead(e) \subseteq cfg.excludes

C17_FilePriority ==
    FunctionReturned("getBook") =>
        LET has(suffix) == \E i \in DOMAIN input.tree : input.tree[i] = <<input.id, suffix>>
        IN  /\ has(".txt") => output.value = <<input.id, ".txt">>
            /\ ~has(".txt") /\ has("-8.txt") => output.value = <<input.id, "-8.txt">>
            /\ ~has(".txt") /\ ~has("-8.txt") /\ has("-0.txt")
                 => output.value = <<input.id, "-0.txt">>
            /\ output.value = NoFile
                 <=> ~has(".txt") /\ ~has("-8.txt") /\ ~has("-0.txt")

\* "-8.txt" is found although "-0.txt" and a file of another book come first
C17_Witness ==
    /\ FunctionReturned("getBook")
    /\ Len(input.tree) = 3
    /\ input.tree[1] = <<input.id, "-0.txt">>
    /\ input.tree[2] # <<input.id, "-8.txt">>
    /\ input.tree[3] = <<input.id, "-8.txt">>
    /\ output.value = <<input.id, "-8.txt">>

\* C18: with headers present the delay is reset * 1000 - now when the remaining
\* quota is below 1 and zero otherwise; a negative delay makes the timer wait
\* as a delay of zero does.
C18_DelayFromHeaders ==
    input.op = "getRateTimeout" /\ output.at # "call" =>
        /\ output.at = "return" <=> input.headers.present
        /\ input.headers.present /\ input.headers.remaining < 1
             => output.value = input.headers.reset * 1000 - input.now
        /\ input.headers.present /\ input.headers.remaining >= 1 => output.value = 0
        /\ output.value < 0 => output.wait = setTimeoutWait(0)

\* the reset time has passed already
C18_Witness ==
    /\ input.op = "getRateTimeout"
    /\ output.at = "return"
    /\ input.headers.remaining = 0
    /\ input.headers.reset = 2
    /\ input.now = 3000
    /\ output.value = 0 - 1000
    /\ output.wait = 0

ResolutionKinds == {"search", "findRepo", "tree", "getTextRepo", "blob", "getTextBlob"}

InResolution == \E e \in pending : e.kind \in ResolutionKinds

Pending(kind) == \E e \in pending : e.kind = kind

\* this step called the callback of getGutenbergBook, processText
CallbackStep == last' \in BookErrors \cup {"transcribing"}

\* search, tree and blob are requested in this order, each after the timer
\* set for the response before it
RequestOrder ==
    /\ Pending("search")' => Pending("addParagraph")
    /\ Pending("findRepo")' =>
          /\ Pending("search") /\ response'.to = "search"
          /\ ~response'.err /\ response'.headers
          /\ \A f \in pending' : f.delay = response'.timeout
    /\ Pending("tree")' => \E e \in pending : e.kind = "findRepo" /\ e.result # ""
    /\ Pending("getTextRepo")' =>
          /\ Pending("tree") /\ response'.to = "tree"
          /\ ~response'.err /\ response'.hit /\ response'.headers
          /\ \A f \in pending' : f.delay = response'.timeout
    /\ Pending("blob")' => Pending("getTextRepo")
    /\ Pending("getTextBlob")' =>
          /\ Pending("blob") /\ response'.to = "blob"
          /\ ~response'.err /\ response'.headers
          /\ \A f \in pending' : f.delay = response'.timeout
    /\ AppendStep => Pending("getTextBlob")
    /\ InResolution /\ InResolution' =>
          \A e \in pending : \A f \in pending' :
              f.index = e.index /\ f.count = e.count /\ f.bookId = e.bookId

\* the callback ends the resolution that calls it
CallbackAtMostOnce ==
    CallbackStep => InResolution /\ ~InResolution' /\ Pending("addParagraph")'

\* C19 as claimed: every resolution ends with one call of the callback.
C19_CallbackExactlyOnce ==
    [][InResolution /\ ~InResolution' => CallbackStep]_vars

\* C19: search, tree and blob are requested in this order, each (and the
\* delivery of the text) after the response before it came without error and
\* the timer set from its headers fired; the callback is called at most once
\* per resolution: once when the resolution ends, except when it ends by the
\* exception of getRateTimeout, where it is not called.
C19_OrderAndCallbackOnceUnlessThrown ==
    [][/\ RequestOrder
       /\ CallbackAtMostOnce
       /\ InResolution /\ ~InResolution' => (CallbackStep /\ ~crashed') \/ (crashed' /\ ~CallbackStep)
      ]_vars

\* the text of a book was delivered to processText at the end of a resolution
C19_Witness ==
    /\ Len(transcribed) = 1
    /\ last = "transcribing"
    /\ Pending("addParagraph")

\* C20: the cache holds exactly the seeds a paragraph was written from, and
\* their number is paragraphLimit minus the remaining count.
C20_CacheIsAppendedSeeds ==
    /\ cache = {transcribed[i].index : i \in 1..Len(transcribed)}
    /\ Cardinality(cache) = Len(transcribed)
    /\ \A e \in pending : Cardinality(cache) = cfg.paragraphLimit - e.count
    /\ closed = 1 => Cardinality(cache) = cfg.paragraphLimit

\* a seed was retried, the next one was written from: only the latter is cached
C20_Witness ==
    /\ retries = 1
    /\ Len(transcribed) = 1
    /\ cfg.startId \notin cache
    /\ cache = {cfg.startId + getNextIndex(extraText)}

====
